---- MODULE Spec2Model ----
(***************************************************************************)
(* Model of the comPASS analytics engine (src/utils/analytics.py).         *)
(*                                                                         *)
(* The engine is a set of pure functions over two in-memory sequences,     *)
(* the questions of a test and the submissions of its students.  The state *)
(* of the model is one pair of inputs, the operation last invoked on it    *)
(* and the value that operation returned.                                  *)
(*                                                                         *)
(* Numbers.  A stored percentage is round(score / total * 100, 2)          *)
(* (src/pages/submit_test.py:161), a decimal with two places.  The model   *)
(* keeps every percentage-valued quantity as an integer number of          *)
(* hundredths of a percentage point (65.00 is 6500).  Means, variances and *)
(* interpolated percentiles are kept as exact fractions and rounded where  *)
(* the code calls round(x, 2).                                             *)
(***************************************************************************)
EXTENDS Integers, Sequences, FiniteSets, TLC

\* Largest submission list drawn from ScoreSubmissions.
MaxSubs == 3

\* Largest submission list drawn from graded answer sheets.
MaxSheets == 2

VARIABLES
    questions,      \* the questions argument: a sequence of question documents
    submissions,    \* the submissions argument: a sequence of submission documents
    op,             \* the function last called on them ("idle": none yet)
    args,           \* its further arguments (the risk thresholds), <<>> if none
    result,         \* the value it returned
    test,           \* the test document of the store (student pages)
    now,            \* the clock, in minutes
    page,           \* the page the student's browser shows
    test_session,   \* st.session_state.test_session
    confirm_submit  \* the confirmation checkbox of the submit page

\* The state of the student's pages; the analytics engine neither reads
\* nor writes it.
student_vars == <<test, now, page, test_session, confirm_submit>>

vars == <<questions, submissions, op, args, result,
          test, now, page, test_session, confirm_submit>>

----------------------------------------------------------------------------
(* Arithmetic helpers *)

\* n percentage points in hundredths.
Pct(n) == n * 100

Min2(a, b) == IF a < b THEN a ELSE b
Max2(a, b) == IF a > b THEN a ELSE b

RECURSIVE SumSeq(_)
SumSeq(s) == IF s = <<>> THEN 0 ELSE Head(s) + SumSeq(Tail(s))

\* Python's sum(1 for x in xs if test(x)), on the sequence of the test's
\* outcomes: the number of indexes at which it is TRUE.
CountTrue(outcomes) == Cardinality({i \in DOMAIN outcomes : outcomes[i]})

\* round(num / den, 2) for a fraction counted in hundredths: the nearest
\* integer, a tie going to the even neighbour (Python's round).
Round2(num, den) ==
    LET q == num \div den
        r == num % den
    IN  IF 2 * r < den THEN q
        ELSE IF 2 * r > den THEN q + 1
        ELSE IF q % 2 = 0 THEN q ELSE q + 1

\* N^2 times the population variance of xs.  numpy computes
\* mean(abs(x - mean(x))^2); N * sum(x^2) - sum(x)^2 is the same number and
\* equals the sum over the pairs i < j of (x_i - x_j)^2, the form used here.
VarTimesN2(xs) ==
    LET n == Len(xs)
        pairs == {ij \in (1..n) \X (1..n) : ij[1] < ij[2]}
        RECURSIVE Total(_)
        Total(P) == IF P = {} THEN 0
                    ELSE LET ij == CHOOSE x \in P : TRUE
                         IN  (xs[ij[1]] - xs[ij[2]]) * (xs[ij[1]] - xs[ij[2]])
                             + Total(P \ {ij})
    IN  Total(pairs)

\* round(np.std(xs), 2): the integer s (hundredths) nearest to the square
\* root of the variance, (s - 1/2)^2 <= variance < (s + 1/2)^2, found by
\* bisection between 0 and 50 points (no deviation of values in [0, 100]
\* is larger).
StdRounded(xs) ==
    LET n == Len(xs)
        v == VarTimesN2(xs)
        reaches(s) == s = 0 \/ n * n * (s * s - s) + (n * n + 3) \div 4 <= v
        RECURSIVE Bisect(_, _)
        Bisect(lo, hi) ==
            IF lo = hi THEN lo
            ELSE LET mid == (lo + hi + 1) \div 2
                 IN  IF reaches(mid) THEN Bisect(mid, hi) ELSE Bisect(lo, mid - 1)
    IN  Bisect(0, Pct(50))

----------------------------------------------------------------------------
(* Sorting *)

\* list.sort(key=...) on keys ks: a stable ascending sort.  The result is
\* the order of the indexes; the element at index i moves to the place
\* after every smaller key and every equal key that stood before it.
AscOrder(ks) ==
    LET n == Len(ks)
        place(i) == 1 + Cardinality({j \in 1..n :
                        ks[j] < ks[i] \/ (ks[j] = ks[i] /\ j < i)})
    IN  [k \in 1..n |-> CHOOSE i \in 1..n : place(i) = k]

\* list.sort(key=..., reverse=True): descending, equal keys keep their order.
DescOrder(ks) ==
    LET n == Len(ks)
        place(i) == 1 + Cardinality({j \in 1..n :
                        ks[j] > ks[i] \/ (ks[j] = ks[i] /\ j < i)})
    IN  [k \in 1..n |-> CHOOSE i \in 1..n : place(i) = k]

Permute(s, order) == [k \in 1..Len(s) |-> s[order[k]]]

----------------------------------------------------------------------------
(* The inputs: question and submission documents *)

\* str.upper() on the option strings the model uses.  It changes letters
\* only: surrounding blanks stay.
Upper(s) ==
    CASE s = "a" -> "A"
      [] s = "b" -> "B"
      [] s = " a" -> " A"
      [] s = " a " -> " A "
      [] s = "math01" -> "MATH01"
      [] OTHER -> s

Question(id, topic, correct) ==
    [id |-> id, question |-> id, topic |-> topic, correct_option |-> correct]

\* The question lists a test is analysed with: none, one question, two of
\* one topic, two of two topics (one stored with a lower-case key).
QuestionLists ==
    { <<>>,
      <<Question("q1", "Algebra", "A")>>,
      <<Question("q1", "Algebra", "A"), Question("q2", "Algebra", "B")>>,
      <<Question("q1", "Mechanics", "b"), Question("q2", "Algebra", "A")>>,
      <<Question("q1", "Algebra", "A"), Question("q2", "Algebra", "B"),
        Question("q3", "Mechanics", "C")>> }

\* The answers mapping of a submission, in its iteration order: pairs of
\* question id and selected option, no id twice.  "q9" is the id of a
\* question that is not (or no longer) among the questions; " A" is an
\* option stored with a leading blank.
AnswerSheets ==
    { <<>>,
      << <<"q1", "A">> >>,
      << <<"q1", "a">>, <<"q2", "B">> >>,
      << <<"q2", "A">>, <<"q1", "B">> >>,
      << <<"q1", "A">>, <<"q9", "A">> >>,
      << <<"q9", "B">> >>,
      << <<"q1", " A">> >> }

StudentNames == <<"Ada", "Ben", "Chi", "Dev", "Eva", "Fay">>

\* dict.get(key) on an answers mapping: the option, or "" for None.
AnswerOf(answers, qid) ==
    IF \E i \in DOMAIN answers : answers[i][1] = qid
    THEN answers[CHOOSE i \in DOMAIN answers : answers[i][1] = qid][2]
    ELSE ""

\* Mutant: the recorded answer compared with the key as stored.
GradeSubmissionCaseSensitive(qs, name, answers) ==
    LET good(q) == /\ AnswerOf(answers, q.id) # ""
                   /\ AnswerOf(answers, q.id) = q.correct_option
        correct_count == CountTrue([i \in DOMAIN qs |-> good(qs[i])])
        total_questions == Len(qs)
    IN  [ student_name |-> name,
          answers |-> answers,
          score |-> correct_count,
          percentage |-> IF total_questions > 0
                         THEN Round2(correct_count * Pct(100), total_questions)
                         ELSE 0,
          total_questions |-> total_questions ]

\* The submit page's grading: one point per question whose recorded answer
\* equals the key ignoring letter case; the stored percentage is
\* round(score / total * 100, 2), 0 for a test without questions.
GradeSubmission(qs, name, answers) ==
    LET good(q) == /\ AnswerOf(answers, q.id) # ""
                   /\ Upper(AnswerOf(answers, q.id)) = Upper(q.correct_option)
        correct_count == CountTrue([i \in DOMAIN qs |-> good(qs[i])])
        total_questions == Len(qs)
    IN  [ student_name |-> name,
          answers |-> answers,
          score |-> correct_count,
          percentage |-> IF total_questions > 0
                         THEN Round2(correct_count * Pct(100), total_questions)
                         ELSE 0,
          total_questions |-> total_questions ]

\* The percentages of the score-driven inputs: the ends of the scale, both
\* sides of every threshold of the engine (40, 65, 70) and the values that
\* put a class exactly on a readiness band (55 + 5 = 60, mean(65, 75) + 5 = 75).
Percentages ==
    { 0, Pct(30), Pct(40) - 1, Pct(40), Pct(55), Pct(65) - 1, Pct(65),
      Pct(70), Pct(75), Pct(100) }

\* The submission of the i-th student of a 20-question test whose stored
\* percentage is p; its answers are not looked at by the score functions.
ScoreSubmission(i, p) ==
    [ student_name |-> StudentNames[i],
      answers |-> <<>>,
      score |-> (p * 20) \div Pct(100),
      percentage |-> p,
      total_questions |-> 20 ]

SeqsUpTo(S, n) == UNION {[1..k -> S] : k \in 0..n}

\* Submission lists given by their percentages, in every order.
ScoreInputs ==
    { [i \in 1..Len(ps) |-> ScoreSubmission(i, ps[i])] :
        ps \in SeqsUpTo(Percentages, MaxSubs) }

\* Four students with 30, 50, 70 and 90 percent.
FourStudentClass ==
    LET ps == <<Pct(30), Pct(50), Pct(70), Pct(90)>>
    IN  [i \in 1..4 |-> ScoreSubmission(i, ps[i])]

\* Three students of a 30-question test with 19, 19 and 25 correct
\* answers: 63.33, 63.33 and 83.33 percent.
ThirtyQuestionClass ==
    LET scores == <<19, 19, 25>>
    IN  [i \in 1..3 |->
            [ student_name |-> StudentNames[i],
              answers |-> <<>>,
              score |-> scores[i],
              percentage |-> Round2(scores[i] * Pct(100), 30),
              total_questions |-> 30 ]]

\* Submission lists graded from answer sheets of two students (a name may
\* occur twice: the engine does not require distinct students).
SheetInputs(qs) ==
    SeqsUpTo({GradeSubmission(qs, StudentNames[n], a) :
                n \in 1..2, a \in AnswerSheets}, MaxSheets)

PercentagesOf(subs) == [i \in 1..Len(subs) |-> subs[i].percentage]

----------------------------------------------------------------------------
(* Student risk classification *)

HighRiskDefault == Pct(40)
MediumRiskDefault == Pct(65)

\* Mutant: the last branch written as "elif percentage > medium", so that a
\* submission at exactly the medium threshold is appended to no list.
RiskBucketDroppingCut(percentage, high_risk_threshold, medium_risk_threshold) ==
    IF percentage < high_risk_threshold THEN "high"
    ELSE IF percentage < medium_risk_threshold THEN "medium"
    ELSE IF percentage > medium_risk_threshold THEN "low"
    ELSE "none"

\* Mutant: the first comparison written as <=.
RiskBucketInclusiveHigh(percentage, high_risk_threshold, medium_risk_threshold) ==
    IF percentage <= high_risk_threshold THEN "high"
    ELSE IF percentage < medium_risk_threshold THEN "medium"
    ELSE "low"

\* The if / elif / else of the loop body.
RiskBucket(percentage, high_risk_threshold, medium_risk_threshold) ==
    IF percentage < high_risk_threshold THEN "high"
    ELSE IF percentage < medium_risk_threshold THEN "medium"
    ELSE "low"

StudentData(submission) ==
    [ name |-> submission.student_name,
      percentage |-> submission.percentage,
      score |-> submission.score,
      total |-> submission.total_questions ]

\* The three lists as the loop appends to them: in submission order.
RiskList(subs, bucket, high_risk_threshold, medium_risk_threshold) ==
    LET data == [i \in 1..Len(subs) |-> StudentData(subs[i])]
        InBucket(d) == RiskBucket(d.percentage, high_risk_threshold,
                                  medium_risk_threshold) = bucket
    IN  SelectSeq(data, InBucket)

SortWorstFirst(list) ==
    Permute(list, AscOrder([i \in 1..Len(list) |-> list[i].percentage]))

\* Mutant: reverse=True forgotten.
SortBestFirstUnreversed(list) ==
    Permute(list, AscOrder([i \in 1..Len(list) |-> list[i].percentage]))

SortBestFirst(list) ==
    Permute(list, DescOrder([i \in 1..Len(list) |-> list[i].percentage]))

ClassifyStudentRisk(subs, high_risk_threshold, medium_risk_threshold) ==
    LET high_risk == SortWorstFirst(
            RiskList(subs, "high", high_risk_threshold, medium_risk_threshold))
        medium_risk == SortWorstFirst(
            RiskList(subs, "medium", high_risk_threshold, medium_risk_threshold))
        low_risk == SortBestFirst(
            RiskList(subs, "low", high_risk_threshold, medium_risk_threshold))
    IN  [ high_risk |-> high_risk,
          medium_risk |-> medium_risk,
          low_risk |-> low_risk,
          stats |-> [ high_risk_count |-> Len(high_risk),
                      medium_risk_count |-> Len(medium_risk),
                      low_risk_count |-> Len(low_risk),
                      total_students |-> Len(subs) ] ]

----------------------------------------------------------------------------
(* Class readiness *)

IsHighPerformer(p) == p >= Pct(70)
IsAtRisk(p) == p < Pct(40)

HighPerformers(percentages) ==
    CountTrue([i \in DOMAIN percentages |-> IsHighPerformer(percentages[i])])

AtRiskStudents(percentages) ==
    CountTrue([i \in DOMAIN percentages |-> IsAtRisk(percentages[i])])

\* The three adjustments, each decided on the base metrics (std_dev,
\* high_performers_pct, at_risk_pct), as hundredths of a point.
ConsistencyBonus(percentages) ==
    LET n == Len(percentages)
    IN  IF VarTimesN2(percentages) < Pct(15) * Pct(15) * n * n THEN Pct(5) ELSE 0

\* Mutant: the bonus given from 50% on (>= for >).
HighPerformerBonusAtHalf(percentages) ==
    IF HighPerformers(percentages) * 100 >= 50 * Len(percentages)
    THEN Pct(3) ELSE 0

HighPerformerBonus(percentages) ==
    IF HighPerformers(percentages) * 100 > 50 * Len(percentages)
    THEN Pct(3) ELSE 0

AtRiskPenalty(percentages) ==
    IF AtRiskStudents(percentages) * 100 > 30 * Len(percentages)
    THEN Pct(10) ELSE 0

\* readiness_score before the clamp, times the number of submissions.
AdjustedScoreTimesN(percentages) ==
    LET n == Len(percentages)
    IN  SumSeq(percentages)
        + n * ConsistencyBonus(percentages)
        + n * HighPerformerBonus(percentages)
        - n * AtRiskPenalty(percentages)

\* Mutant: the cap at 100 left out.
ClampScoreTimesNWithoutCap(scoreN, n) == Max2(0, scoreN)

\* min(100, max(0, readiness_score)), on the score times n.
ClampScoreTimesN(scoreN, n) == Min2(Pct(100) * n, Max2(0, scoreN))

\* Mutant: 'Exam Ready' only above 75.
ReadinessStatusAbove75(scoreN, n) ==
    IF scoreN > Pct(75) * n THEN "Exam Ready"
    ELSE IF scoreN >= Pct(60) * n THEN "Borderline"
    ELSE "Not Ready"

ReadinessStatus(scoreN, n) ==
    IF scoreN >= Pct(75) * n THEN "Exam Ready"
    ELSE IF scoreN >= Pct(60) * n THEN "Borderline"
    ELSE "Not Ready"

Recommendation(status) ==
    CASE status = "Exam Ready" ->
            "Class is well-prepared. Focus on revision and practice."
      [] status = "Borderline" ->
            "Class needs targeted intervention on weak topics. 1-2 weeks of focused revision recommended."
      [] status = "Not Ready" ->
            "Significant gaps identified. Conduct intensive revision sessions."

NoDataReadiness ==
    [ readiness_score |-> 0,
      status |-> "No Data",
      average_percentage |-> 0,
      std_deviation |-> 0,
      high_performers_pct |-> 0,
      at_risk_pct |-> 0,
      recommendation |-> "No submissions to analyze" ]

CalculateClassReadiness(subs) ==
    IF subs = <<>> THEN NoDataReadiness
    ELSE
    LET percentages == PercentagesOf(subs)
        n == Len(subs)
        scoreN == ClampScoreTimesN(AdjustedScoreTimesN(percentages), n)
        status == ReadinessStatus(scoreN, n)
    IN  [ readiness_score |-> Round2(scoreN, n),
          status |-> status,
          average_percentage |-> Round2(SumSeq(percentages), n),
          std_deviation |-> StdRounded(percentages),
          high_performers_pct |->
              Round2(HighPerformers(percentages) * Pct(100), n),
          at_risk_pct |-> Round2(AtRiskStudents(percentages) * Pct(100), n),
          recommendation |-> Recommendation(status) ]

----------------------------------------------------------------------------
(* Response joiner and topic analytics *)

\* questions_lookup = {q['id']: q for q in questions}: the last question
\* stored under an id.
HasQuestion(qs, qid) == \E i \in DOMAIN qs : qs[i].id = qid

LookupQuestion(qs, qid) ==
    qs[CHOOSE i \in DOMAIN qs :
          qs[i].id = qid /\ \A j \in DOMAIN qs : qs[j].id = qid => j <= i]

\* Mutant: the options compared as they are stored.
IsCorrectCaseSensitive(selected_option, correct_option) ==
    selected_option = correct_option

\* is_correct = selected_option.upper() == question['correct_option'].upper()
IsCorrect(selected_option, correct_option) ==
    Upper(selected_option) = Upper(correct_option)

\* The row appended for one answer of a submission to a known question.
Response(submission, question, question_id, selected_option) ==
    [ student_name |-> submission.student_name,
      question_id |-> question_id,
      question |-> question.question,
      topic |-> question.topic,
      correct_option |-> question.correct_option,
      selected_option |-> selected_option,
      is_correct |-> IsCorrect(selected_option, question.correct_option),
      score |-> submission.score,
      percentage |-> submission.percentage ]

\* Mutant: an answer to an unknown question id ends the loop (break), so
\* the answers after it are lost.
RECURSIVE SubmissionResponsesStoppingAtOrphan(_, _, _)
SubmissionResponsesStoppingAtOrphan(qs, submission, answers) ==
    IF answers = <<>> THEN <<>>
    ELSE LET question_id == Head(answers)[1]
             selected_option == Head(answers)[2]
         IN  IF HasQuestion(qs, question_id)
             THEN <<Response(submission, LookupQuestion(qs, question_id),
                             question_id, selected_option)>>
                  \o SubmissionResponsesStoppingAtOrphan(qs, submission, Tail(answers))
             ELSE <<>>

\* The inner loop: the rows of one submission, in the order of its answers;
\* an answer to an unknown question id appends nothing.
RECURSIVE SubmissionResponses(_, _, _)
SubmissionResponses(qs, submission, answers) ==
    IF answers = <<>> THEN <<>>
    ELSE LET question_id == Head(answers)[1]
             selected_option == Head(answers)[2]
             rest == SubmissionResponses(qs, submission, Tail(answers))
         IN  IF HasQuestion(qs, question_id)
             THEN <<Response(submission, LookupQuestion(qs, question_id),
                             question_id, selected_option)>> \o rest
             ELSE rest

\* The dataframe, as the sequence of its rows (<<>>: the empty dataframe).
RECURSIVE PrepareAnalyticsData(_, _)
PrepareAnalyticsData(qs, subs) ==
    IF subs = <<>> THEN <<>>
    ELSE SubmissionResponses(qs, Head(subs), Head(subs).answers)
         \o PrepareAnalyticsData(qs, Tail(subs))

\* Series.unique(): the values in the order of their first appearance.
RECURSIVE UniqueInOrder(_)
UniqueInOrder(s) ==
    IF s = <<>> THEN <<>>
    ELSE LET front == UniqueInOrder(SubSeq(s, 1, Len(s) - 1))
             last == s[Len(s)]
         IN  IF \E i \in DOMAIN front : front[i] = last
             THEN front ELSE Append(front, last)

\* Mutant: the factor 100 forgotten.
AccuracyAsFraction(correct_count, total_attempts) ==
    IF total_attempts > 0 THEN Round2(correct_count * 100, total_attempts) ELSE 0

\* round(correct_count / total_attempts * 100, 2), 0 without attempts.
Accuracy(correct_count, total_attempts) ==
    IF total_attempts > 0
    THEN Round2(correct_count * Pct(100), total_attempts)
    ELSE 0

\* Mutant: every question of the test counted (len(questions)).
QuestionsPerTopicCountingAll(qs, topic) == Len(qs)

\* questions_per_topic.get(topic, 0): the number of questions of the topic.
QuestionsPerTopic(qs, topic) ==
    CountTrue([i \in DOMAIN qs |-> qs[i].topic = topic])

\* The entry of one topic: topic_stats[topic] together with its key.
TopicStat(qs, df, topic) ==
    LET OfTopic(row) == row.topic = topic
        topic_data == SelectSeq(df, OfTopic)
        correct_count == CountTrue([i \in DOMAIN topic_data |-> topic_data[i].is_correct])
        total_attempts == Len(topic_data)
    IN  [ topic |-> topic,
          accuracy |-> Accuracy(correct_count, total_attempts),
          correct |-> correct_count,
          total_attempts |-> total_attempts,
          total_questions |-> QuestionsPerTopic(qs, topic),
          students_attempted |->
              Cardinality({topic_data[i].student_name : i \in DOMAIN topic_data}) ]

\* Mutant: one entry for every topic of the questions, answered or not.
CalculateTopicPerformanceOfEveryTopic(qs, subs) ==
    LET df == PrepareAnalyticsData(qs, subs)
        topics == UniqueInOrder([i \in 1..Len(qs) |-> qs[i].topic])
    IN  IF df = <<>> THEN <<>>
        ELSE [k \in 1..Len(topics) |-> TopicStat(qs, df, topics[k])]

\* The returned dict, as the sequence of its entries in insertion order
\* (<<>>: the empty dict).
CalculateTopicPerformance(qs, subs) ==
    LET df == PrepareAnalyticsData(qs, subs)
        topics == UniqueInOrder([i \in 1..Len(df) |-> df[i].topic])
    IN  IF df = <<>> THEN <<>>
        ELSE [k \in 1..Len(topics) |-> TopicStat(qs, df, topics[k])]

WeakThresholdDefault == Pct(60)
StrongThresholdDefault == Pct(80)

\* Mutant: the pairs built from stats['correct'].
TopicPairsOfCorrectCounts(topic_performance) ==
    [i \in 1..Len(topic_performance) |->
        <<topic_performance[i].topic, topic_performance[i].correct>>]

TopicPairs(topic_performance) ==
    [i \in 1..Len(topic_performance) |->
        <<topic_performance[i].topic, topic_performance[i].accuracy>>]

\* Mutant: a topic at the threshold counted as weak (<=).
IdentifyWeakTopicsInclusive(topic_performance, threshold) ==
    LET IsWeak(pair) == pair[2] <= threshold
        weak_topics == SelectSeq(TopicPairs(topic_performance), IsWeak)
    IN  Permute(weak_topics,
                AscOrder([i \in 1..Len(weak_topics) |-> weak_topics[i][2]]))

\* Mutant: reverse=True forgotten in the sort.
IdentifyStrongTopicsUnreversed(topic_performance, threshold) ==
    LET IsStrong(pair) == pair[2] >= threshold
        strong_topics == SelectSeq(TopicPairs(topic_performance), IsStrong)
    IN  Permute(strong_topics,
                AscOrder([i \in 1..Len(strong_topics) |-> strong_topics[i][2]]))

IdentifyWeakTopics(topic_performance, threshold) ==
    LET IsWeak(pair) == pair[2] < threshold
        weak_topics == SelectSeq(TopicPairs(topic_performance), IsWeak)
    IN  Permute(weak_topics,
                AscOrder([i \in 1..Len(weak_topics) |-> weak_topics[i][2]]))

IdentifyStrongTopics(topic_performance, threshold) ==
    LET IsStrong(pair) == pair[2] >= threshold
        strong_topics == SelectSeq(TopicPairs(topic_performance), IsStrong)
    IN  Permute(strong_topics,
                DescOrder([i \in 1..Len(strong_topics) |-> strong_topics[i][2]]))

----------------------------------------------------------------------------
(* Statistical summary *)

\* Mutant: the percentile taken at the lower neighbour, not interpolated.
PercentileTimes100Lower(xs, q) ==
    LET sorted == Permute(xs, AscOrder(xs))
        n == Len(xs)
        lo == (q * (n - 1)) \div 100
    IN  100 * sorted[lo + 1]

\* np.percentile(xs, q) with linear interpolation, times 100: the value at
\* position q / 100 * (n - 1) of the sorted list.
PercentileTimes100(xs, q) ==
    LET sorted == Permute(xs, AscOrder(xs))
        n == Len(xs)
        lo == (q * (n - 1)) \div 100
        part == (q * (n - 1)) % 100
        hi == Min2(lo + 1, n - 1)
    IN  100 * sorted[lo + 1] + part * (sorted[hi + 1] - sorted[lo + 1])

\* The empty dict.
EmptyMapping == <<>>

\* The dict returned for a non-empty list.
StatisticsOf(percentages) ==
    LET sorted == Permute(percentages, AscOrder(percentages))
        n == Len(percentages)
    IN  [ mean |-> Round2(SumSeq(percentages), n),
          median |-> Round2(PercentileTimes100(percentages, 50), 100),
          std_deviation |-> StdRounded(percentages),
          min_score |-> sorted[1],
          max_score |-> sorted[n],
          quartiles |-> [ Q1 |-> Round2(PercentileTimes100(percentages, 25), 100),
                          Q2 |-> Round2(PercentileTimes100(percentages, 50), 100),
                          Q3 |-> Round2(PercentileTimes100(percentages, 75), 100) ] ]

\* Mutant: zero values reported for an empty list.
CalculateTestStatisticsZeroed(subs) ==
    IF subs = <<>>
    THEN [ mean |-> 0, median |-> 0, std_deviation |-> 0, min_score |-> 0,
           max_score |-> 0, quartiles |-> [Q1 |-> 0, Q2 |-> 0, Q3 |-> 0] ]
    ELSE StatisticsOf(PercentagesOf(subs))

CalculateTestStatistics(subs) ==
    IF subs = <<>> THEN EmptyMapping ELSE StatisticsOf(PercentagesOf(subs))

----------------------------------------------------------------------------
(* Comparison of one student with the class *)

\* Mutant: only the submissions strictly below the student counted.
CountAtMostExcludingEqual(student_pct, all_percentages) ==
    CountTrue([i \in DOMAIN all_percentages |-> all_percentages[i] < student_pct])

\* sum(1 for p in all_percentages if p <= student_pct)
CountAtMost(student_pct, all_percentages) ==
    CountTrue([i \in DOMAIN all_percentages |-> all_percentages[i] <= student_pct])

\* Mutant: the scores sorted ascending before the lookup.
RankInAscending(student_pct, all_percentages) ==
    LET sorted_scores == Permute(all_percentages, AscOrder(all_percentages))
    IN  CHOOSE k \in DOMAIN sorted_scores :
            /\ sorted_scores[k] = student_pct
            /\ \A j \in 1..(k - 1) : sorted_scores[j] # student_pct

\* sorted(all_percentages, reverse=True).index(student_pct) + 1: the place
\* of the first occurrence of the student's percentage in the descending
\* list.  The percentage is one of the list (index raises otherwise).
Rank(student_pct, all_percentages) ==
    LET sorted_scores == Permute(all_percentages, DescOrder(all_percentages))
    IN  CHOOSE k \in DOMAIN sorted_scores :
            /\ sorted_scores[k] = student_pct
            /\ \A j \in 1..(k - 1) : sorted_scores[j] # student_pct

\* The category, decided on the percentile before it is rounded:
\* count / n * 100 >= 75 and so on.
PerformanceCategory(count, n) ==
    IF count * 100 >= 75 * n THEN "Top Performer"
    ELSE IF count * 100 >= 50 * n THEN "Above Average"
    ELSE IF count * 100 >= 25 * n THEN "Below Average"
    ELSE "Needs Support"

CompareStudentToClass(student_submission, all_submissions) ==
    LET student_pct == student_submission.percentage
        all_percentages == PercentagesOf(all_submissions)
        n == Len(all_percentages)
        total == SumSeq(all_percentages)
        count == CountAtMost(student_pct, all_percentages)
    IN  [ student_percentage |-> student_pct,
          class_average |-> Round2(total, n),
          difference |-> Round2(n * student_pct - total, n),
          percentile |-> Round2(count * Pct(100), n),
          rank |-> Rank(student_pct, all_percentages),
          total_students |-> Len(all_submissions),
          performance_category |-> PerformanceCategory(count, n) ]

----------------------------------------------------------------------------
(* Aggregated report *)

NoDataReport == [error |-> "No submissions available", has_data |-> FALSE]

\* The analytics dict built for a non-empty list.
FullReport(qs, subs) ==
    [ has_data |-> TRUE,
      total_submissions |-> Len(subs),
      total_questions |-> Len(qs),
      topic_performance |-> CalculateTopicPerformance(qs, subs),
      weak_topics |-> IdentifyWeakTopics(
          CalculateTopicPerformance(qs, subs), WeakThresholdDefault),
      strong_topics |-> IdentifyStrongTopics(
          CalculateTopicPerformance(qs, subs), StrongThresholdDefault),
      risk_classification |->
          ClassifyStudentRisk(subs, HighRiskDefault, MediumRiskDefault),
      class_readiness |-> CalculateClassReadiness(subs),
      statistics |-> CalculateTestStatistics(subs) ]

\* Mutant: the guard for an empty list left out.
GenerateComprehensiveAnalyticsUnguarded(qs, subs) == FullReport(qs, subs)

GenerateComprehensiveAnalytics(qs, subs) ==
    IF subs = <<>> THEN NoDataReport ELSE FullReport(qs, subs)

----------------------------------------------------------------------------
(* The student pages: documents and session *)

\* get_test_by_id found no document (or failed): None.
NoTest == [found |-> FALSE]

\* 'test_session' not in st.session_state.
NoSession == [present |-> FALSE]

\* An expiry_time that is a datetime, and one that is not (missing).
ExpiryAt(t) == [is_datetime |-> TRUE, at |-> t]
NoExpiryTime == [is_datetime |-> FALSE]

\* The test's duration and the time its link expires, in minutes.
ExamDuration == 1
LinkExpiry == 1

\* The questions of the test in the store.
ExamQuestions == <<Question("q1", "Algebra", "A"), Question("q2", "Mechanics", "B")>>

TestDocument(code, expiry_time, status, qs) ==
    [ found |-> TRUE,
      access_code |-> code,
      expiry_time |-> expiry_time,
      status |-> status,
      duration |-> ExamDuration,
      total_questions |-> Len(qs) ]

\* What the student types into the access form: a name (one too short)
\* and a code (the test's in lower case, a wrong one).
EnteredNames == {"Ada", "Al"}
EnteredCodes == {"math01", "WRONG1"}

\* len(student_name.strip()) of the names above.
NameLength(name) ==
    CASE name = "Al" -> 2
      [] OTHER -> 3

\* get_test_by_id: the document, None when the lookup raised.
GetTestById(lookup_ok) == IF lookup_ok THEN test ELSE NoTest

\* Mutant: the stored status not looked at.
ValidateAccessCodeIgnoringStatus(document, access_code, t) ==
    IF ~document.found THEN FALSE
    ELSE IF Upper(document.access_code) # Upper(access_code) THEN FALSE
    ELSE IF document.expiry_time.is_datetime /\ t > document.expiry_time.at
         THEN FALSE
    ELSE TRUE

\* validate_access_code on the document the lookup returned, at time t.
ValidateAccessCode(document, access_code, t) ==
    IF ~document.found THEN FALSE
    ELSE IF Upper(document.access_code) # Upper(access_code) THEN FALSE
    ELSE IF document.expiry_time.is_datetime /\ t > document.expiry_time.at
         THEN FALSE
    ELSE IF document.status = "expired" THEN FALSE
    ELSE TRUE

\* is_expired of the access page: the stored status counts only when
\* expiry_time is not a datetime.
IsExpiredOnPage(document, t) ==
    IF document.expiry_time.is_datetime THEN t > document.expiry_time.at
    ELSE document.status = "expired"

\* st.session_state.test_session as the access page creates it; the
\* questions are loaded by the exam page, score and percentage are set by
\* the submit page (0 stands for the missing key).
NewSession(student_name, t) ==
    [ present |-> TRUE,
      student_name |-> student_name,
      total_questions |-> test.total_questions,
      duration |-> test.duration,
      start_time |-> t,
      current_question |-> 0,
      answers |-> <<>>,
      visited_questions |-> {},
      questions_loaded |-> FALSE,
      questions |-> <<>>,
      submitted |-> FALSE,
      score |-> 0,
      percentage |-> 0 ]

\* (end_time - now) in minutes.
TimeRemaining(session, t) == session.start_time + session.duration - t

\* answers[question_id] = selected_option on a dict kept as the sequence
\* of its items.
DictSet(items, key, value) ==
    IF \E i \in DOMAIN items : items[i][1] = key
    THEN [i \in DOMAIN items |->
             IF items[i][1] = key THEN <<key, value>> ELSE items[i]]
    ELSE Append(items, <<key, value>>)

\* No option chosen in the radio (None), and the option the student picks.
NoOption == ""
Options == {"A"}

\* The widget's value in a run that no click on it caused: the recorded
\* answer of the current question, None without one.
ShownOption(session) ==
    AnswerOf(session.answers, session.questions[session.current_question + 1].id)

\* Mutant: the submit page shown again to a submitted session.
SubmitPageArrivalWithoutCheck(session) == "submit_test"

\* The submit page as it runs on arrival: a submitted session is sent on
\* to the results.
SubmitPageArrival(session) ==
    IF session.submitted THEN "test_results" ELSE "submit_test"

\* Mutant: the selection recorded before the timer is looked at.
RunExamPageRecordingFirst(session, t, selected_option) ==
    LET loaded == IF session.questions_loaded THEN session
                  ELSE [session EXCEPT !.questions_loaded = TRUE,
                                       !.questions = questions]
        question_id == loaded.questions[loaded.current_question + 1].id
        recorded == IF selected_option # NoOption
                    THEN [loaded EXCEPT !.answers =
                             DictSet(@, question_id, selected_option)]
                    ELSE loaded
    IN  IF ~session.questions_loaded /\ questions = <<>>
        THEN [session |-> session, page |-> "exam_interface", shown |-> FALSE]
        ELSE IF TimeRemaining(loaded, t) <= 0
        THEN [session |-> recorded, page |-> SubmitPageArrival(recorded),
              shown |-> FALSE]
        ELSE [session |-> [recorded EXCEPT !.visited_questions =
                              @ \cup {question_id}],
              page |-> "exam_interface", shown |-> TRUE]

\* One run of the exam page up to the navigation buttons, with the value
\* the radio returns: load the questions once, stop without any, leave for
\* the submit page when the time is up, else mark the question visited
\* and record the selection.  shown: the run reached the buttons.
RunExamPage(session, t, selected_option) ==
    LET loaded == IF session.questions_loaded THEN session
                  ELSE [session EXCEPT !.questions_loaded = TRUE,
                                       !.questions = questions]
        question_id == loaded.questions[loaded.current_question + 1].id
        visited == [loaded EXCEPT !.visited_questions = @ \cup {question_id}]
    IN  IF ~session.questions_loaded /\ questions = <<>>
        THEN [session |-> session, page |-> "exam_interface", shown |-> FALSE]
        ELSE IF TimeRemaining(loaded, t) <= 0
        THEN [session |-> loaded, page |-> SubmitPageArrival(loaded),
              shown |-> FALSE]
        ELSE [session |-> IF selected_option # NoOption
                          THEN [visited EXCEPT !.answers =
                                   DictSet(@, question_id, selected_option)]
                          ELSE visited,
              page |-> "exam_interface", shown |-> TRUE]

----------------------------------------------------------------------------
(* The state machine: one call of an operation on one pair of inputs *)

\* The score-driven lists are analysed with the two-question test.
ScoreQuestions == <<Question("q1", "Algebra", "A"), Question("q2", "Algebra", "B")>>

\* The thresholds classify_student_risk is called with: the defaults and a
\* caller's own pair.
RiskThresholds == {<<HighRiskDefault, MediumRiskDefault>>, <<Pct(30), Pct(70)>>}

Init ==
    /\ \/ questions = ScoreQuestions
          /\ submissions \in ScoreInputs \cup {FourStudentClass, ThirtyQuestionClass}
       \/ \E qs \in QuestionLists :
             questions = qs /\ submissions \in SheetInputs(qs)
    /\ op = "idle"
    /\ args = <<>>
    /\ result = <<>>
    /\ test = NoTest
    /\ now = 0
    /\ page = "dashboard"
    /\ test_session = NoSession
    /\ confirm_submit = FALSE

CallPrepareAnalyticsData ==
    /\ op = "idle"
    /\ op' = "prepare_analytics_data"
    /\ args' = <<>>
    /\ result' = PrepareAnalyticsData(questions, submissions)
    /\ UNCHANGED <<questions, submissions>>
    /\ UNCHANGED student_vars

CallCalculateTopicPerformance ==
    /\ op = "idle"
    /\ op' = "calculate_topic_performance"
    /\ args' = <<>>
    /\ result' = CalculateTopicPerformance(questions, submissions)
    /\ UNCHANGED <<questions, submissions>>
    /\ UNCHANGED student_vars

CallClassifyStudentRisk ==
    /\ op = "idle"
    /\ \E cut \in RiskThresholds :
          /\ args' = cut
          /\ result' = ClassifyStudentRisk(submissions, cut[1], cut[2])
    /\ op' = "classify_student_risk"
    /\ UNCHANGED <<questions, submissions>>
    /\ UNCHANGED student_vars

CallCalculateClassReadiness ==
    /\ op = "idle"
    /\ op' = "calculate_class_readiness"
    /\ args' = <<>>
    /\ result' = CalculateClassReadiness(submissions)
    /\ UNCHANGED <<questions, submissions>>
    /\ UNCHANGED student_vars

CallCalculateTestStatistics ==
    /\ op = "idle"
    /\ op' = "calculate_test_statistics"
    /\ args' = <<>>
    /\ result' = CalculateTestStatistics(submissions)
    /\ UNCHANGED <<questions, submissions>>
    /\ UNCHANGED student_vars

\* One student of the class compared with the class; the student's
\* submission is one of all_submissions.
CallCompareStudentToClass ==
    /\ op = "idle"
    /\ \E i \in DOMAIN submissions :
          /\ args' = <<i>>
          /\ result' = CompareStudentToClass(submissions[i], submissions)
    /\ op' = "compare_student_to_class"
    /\ UNCHANGED <<questions, submissions>>
    /\ UNCHANGED student_vars

\* Mutant: the submissions sorted in place (submissions.sort(...)) before
\* the report is built.
CallGenerateComprehensiveAnalyticsSortingInPlace ==
    /\ op = "idle"
    /\ op' = "generate_comprehensive_analytics"
    /\ args' = <<>>
    /\ result' = GenerateComprehensiveAnalytics(questions, submissions)
    /\ submissions' = Permute(submissions, DescOrder(PercentagesOf(submissions)))
    /\ UNCHANGED questions
    /\ UNCHANGED student_vars

CallGenerateComprehensiveAnalytics ==
    /\ op = "idle"
    /\ op' = "generate_comprehensive_analytics"
    /\ args' = <<>>
    /\ result' = GenerateComprehensiveAnalytics(questions, submissions)
    /\ UNCHANGED <<questions, submissions>>
    /\ UNCHANGED student_vars

\* The caller asks for the report a second time, with the same two lists
\* (the dashboard does on every rerun of the page).
CallGenerateComprehensiveAnalyticsAgain ==
    /\ op = "generate_comprehensive_analytics"
    /\ op' = "generate_comprehensive_analytics, second call"
    /\ args' = <<>>
    /\ result' = GenerateComprehensiveAnalytics(questions, submissions)
    /\ UNCHANGED <<questions, submissions>>
    /\ UNCHANGED student_vars

Next ==
    \/ CallPrepareAnalyticsData
    \/ CallCalculateTopicPerformance
    \/ CallClassifyStudentRisk
    \/ CallCalculateClassReadiness
    \/ CallCalculateTestStatistics
    \/ CallCompareStudentToClass
    \/ CallGenerateComprehensiveAnalytics
    \/ CallGenerateComprehensiveAnalyticsAgain

Spec == Init /\ [][Next]_vars

----------------------------------------------------------------------------
(* The topic lists called on their own.  identify_weak_topics and          *)
(* identify_strong_topics take a topic_performance dict and a threshold;   *)
(* here they are called on dicts of at most MaxTopics entries whose        *)
(* tallies give accuracies below, at and above the default thresholds,     *)
(* which a class of MaxSheets students cannot produce.                     *)

MaxTopics == 3

TopicNames == <<"Algebra", "Mechanics", "Optics", "Waves", "Genetics">>

\* (correct, total_attempts) of one topic: 0, 50, 60, 66.67, 80 and 100.
Tallies == { <<0, 1>>, <<1, 2>>, <<3, 5>>, <<4, 6>>, <<4, 5>>, <<1, 1>> }

\* The entry calculate_topic_performance builds for a topic with one
\* question that total_attempts students answered.
TopicStatOfTally(topic, tally) ==
    [ topic |-> topic,
      accuracy |-> Accuracy(tally[1], tally[2]),
      correct |-> tally[1],
      total_attempts |-> tally[2],
      total_questions |-> 1,
      students_attempted |-> tally[2] ]

TopicPerformances ==
    UNION { { [i \in 1..n |-> TopicStatOfTally(TopicNames[i], tallies[i])] :
                tallies \in [1..n -> Tallies] } :
            n \in 0..Min2(MaxTopics, Len(TopicNames)) }

WeakThresholds == {WeakThresholdDefault, Pct(50)}
StrongThresholds == {StrongThresholdDefault, Pct(100)}

InitTopicLists ==
    /\ questions = <<>>
    /\ submissions = <<>>
    /\ op = "idle"
    /\ args = <<>>
    /\ result = <<>>
    /\ test = NoTest
    /\ now = 0
    /\ page = "dashboard"
    /\ test_session = NoSession
    /\ confirm_submit = FALSE

CallIdentifyWeakTopics ==
    /\ op = "idle"
    /\ \E topic_performance \in TopicPerformances, threshold \in WeakThresholds :
          /\ args' = <<topic_performance, threshold>>
          /\ result' = IdentifyWeakTopics(topic_performance, threshold)
    /\ op' = "identify_weak_topics"
    /\ UNCHANGED <<questions, submissions>>
    /\ UNCHANGED student_vars

CallIdentifyStrongTopics ==
    /\ op = "idle"
    /\ \E topic_performance \in TopicPerformances, threshold \in StrongThresholds :
          /\ args' = <<topic_performance, threshold>>
          /\ result' = IdentifyStrongTopics(topic_performance, threshold)
    /\ op' = "identify_strong_topics"
    /\ UNCHANGED <<questions, submissions>>
    /\ UNCHANGED student_vars

NextTopicLists ==
    \/ CallIdentifyWeakTopics
    \/ CallIdentifyStrongTopics

SpecTopicLists == InitTopicLists /\ [][NextTopicLists]_vars

----------------------------------------------------------------------------
(* The student pages as a state machine.  The store holds one test, its    *)
(* questions and the submissions created for it; one browser session walks *)
(* through the access page, the exam page, the submit page and the         *)
(* results.  A script run is one step, taken at the time the clock shows.  *)

\* The clock stops here.
MaxTime == 2

\* create_submission is not called on a store that holds this many
\* submissions already.
MaxStored == 2

Tests ==
    {NoTest} \cup
    { TestDocument("MATH01", expiry_time, status, qs) :
        expiry_time \in {NoExpiryTime, ExpiryAt(LinkExpiry)},
        status \in {"active", "expired"},
        qs \in {ExamQuestions} }

InitStudent ==
    /\ questions \in {ExamQuestions, <<>>}
    /\ test \in Tests \cup {TestDocument("MATH01", NoExpiryTime, "active", <<>>)}
    /\ test.found => test.total_questions = Len(questions)
    /\ submissions = <<>>
    /\ op = "idle"
    /\ args = <<>>
    /\ result = <<>>
    /\ now = 0
    /\ page = "take_test"
    /\ test_session = NoSession
    /\ confirm_submit = FALSE

Tick ==
    /\ now < MaxTime
    /\ now' = now + 1
    /\ op' = "tick"
    /\ args' = <<>>
    /\ result' = <<>>
    /\ UNCHANGED <<questions, submissions, test, page, test_session, confirm_submit>>

\* The student opens the access page of the test (link, or 'Access Test').
OpenTakeTest ==
    /\ page # "take_test"
    /\ page' = "take_test"
    /\ confirm_submit' = FALSE
    /\ op' = "take_test"
    /\ args' = <<>>
    /\ result' = <<>>
    /\ UNCHANGED <<questions, submissions, test, now, test_session>>

\* 'Verify and Start Test': the form is there when the test was found and
\* the page did not find it expired.  A session is created when the
\* entries pass and validate_access_code returns True; the exam page then
\* runs for the first time.
SubmitAccessForm ==
    /\ page = "take_test"
    /\ test.found
    /\ ~IsExpiredOnPage(test, now)
    /\ \E student_name \in EnteredNames, entered \in EnteredCodes,
          acknowledge \in BOOLEAN, lookup_ok \in BOOLEAN :
          LET access_code == Upper(entered)
              refused == \/ student_name = "" \/ access_code = ""
                         \/ NameLength(student_name) < 3
                         \/ ~acknowledge
              is_valid == ValidateAccessCode(GetTestById(lookup_ok), access_code, now)
              run == RunExamPage(NewSession(student_name, now), now, NoOption)
          IN  /\ args' = <<student_name, entered, acknowledge, lookup_ok>>
              /\ result' = IF refused THEN <<>> ELSE <<is_valid>>
              /\ IF ~refused /\ is_valid
                 THEN test_session' = run.session /\ page' = run.page
                 ELSE UNCHANGED <<test_session, page>>
    /\ op' = "take_test: access form"
    /\ confirm_submit' = FALSE
    /\ UNCHANGED <<questions, submissions, test, now>>

\* The exam page shows a question of a running session.
ExamShown ==
    /\ page = "exam_interface"
    /\ test_session.present
    /\ test_session.questions_loaded

\* The student opens the exam page from the page list.
OpenExamPage ==
    /\ page # "exam_interface"
    /\ IF test_session.present
       THEN LET run == RunExamPage(test_session, now,
                                   IF test_session.questions_loaded
                                   THEN ShownOption(test_session) ELSE NoOption)
            IN  test_session' = run.session /\ page' = run.page
       ELSE test_session' = test_session /\ page' = "exam_interface"
    /\ confirm_submit' = FALSE
    /\ op' = "exam_interface"
    /\ args' = <<>>
    /\ result' = <<>>
    /\ UNCHANGED <<questions, submissions, test, now>>

\* The timer's refresh: the exam page runs again every second.
AutoRefresh ==
    /\ ExamShown
    /\ LET run == RunExamPage(test_session, now, ShownOption(test_session))
       IN  test_session' = run.session /\ page' = run.page
    /\ op' = "exam_interface: refresh"
    /\ args' = <<>>
    /\ result' = <<>>
    /\ UNCHANGED <<questions, submissions, test, now, confirm_submit>>

\* The student picks an option of the current question.
SelectOption ==
    /\ ExamShown
    /\ \E selected_option \in Options :
          LET run == RunExamPage(test_session, now, selected_option)
          IN  /\ test_session' = run.session
              /\ page' = run.page
              /\ args' = <<selected_option>>
    /\ op' = "exam_interface: answer"
    /\ result' = <<>>
    /\ UNCHANGED <<questions, submissions, test, now, confirm_submit>>

\* Mutant: 'Previous' at the first question goes to the last one.
PreviousQuestionWrapping(current_idx, total_questions) ==
    IF current_idx > 0 THEN current_idx - 1 ELSE total_questions - 1

\* The question 'Previous' leads to (the button is disabled at the first).
PreviousQuestion(current_idx, total_questions) ==
    IF current_idx > 0 THEN current_idx - 1 ELSE current_idx

\* The question 'Next' leads to (the button is disabled at the last).
NextQuestion(current_idx, total_questions) ==
    IF current_idx < total_questions - 1 THEN current_idx + 1 ELSE current_idx

\* A click on a navigation button that leads from the current question to
\* question target: the page runs up to the buttons, sets current_question
\* and runs again (st.rerun).  A click on a disabled button (target is the
\* current question of 'Previous' or 'Next') starts no run.  The actions
\* keep the index the page showed when the button was clicked in args.
AfterNavigation(session, t, target, disabled) ==
    LET run == RunExamPage(session, t, ShownOption(session))
        moved == [run.session EXCEPT !.current_question = target]
    IN  IF disabled THEN [session |-> session, page |-> "exam_interface"]
        ELSE IF ~run.shown THEN [session |-> run.session, page |-> run.page]
        ELSE LET rerun == RunExamPage(moved, t, ShownOption(moved))
             IN  [session |-> rerun.session, page |-> rerun.page]

PressPrevious ==
    /\ ExamShown
    /\ LET current_idx == test_session.current_question
           total_questions == Len(test_session.questions)
           target == PreviousQuestion(current_idx, total_questions)
           after == AfterNavigation(test_session, now, target, target = current_idx)
       IN  test_session' = after.session /\ page' = after.page
    /\ op' = "exam_interface: previous"
    /\ args' = <<test_session.current_question>>
    /\ result' = <<>>
    /\ UNCHANGED <<questions, submissions, test, now, confirm_submit>>

PressNext ==
    /\ ExamShown
    /\ LET current_idx == test_session.current_question
           total_questions == Len(test_session.questions)
           target == NextQuestion(current_idx, total_questions)
           after == AfterNavigation(test_session, now, target, target = current_idx)
       IN  test_session' = after.session /\ page' = after.page
    /\ op' = "exam_interface: next"
    /\ args' = <<test_session.current_question>>
    /\ result' = <<>>
    /\ UNCHANGED <<questions, submissions, test, now, confirm_submit>>

\* A button of the question navigator: one per question, none disabled.
JumpToQuestion ==
    /\ ExamShown
    /\ \E idx \in 0..(Len(test_session.questions) - 1) :
          LET after == AfterNavigation(test_session, now, idx, FALSE)
          IN  /\ test_session' = after.session
              /\ page' = after.page
              /\ args' = <<idx>>
    /\ op' = "exam_interface: navigator"
    /\ result' = <<>>
    /\ UNCHANGED <<questions, submissions, test, now, confirm_submit>>

\* 'Submit Test' on the exam page: on to the submit page.
PressSubmitTest ==
    /\ ExamShown
    /\ LET run == RunExamPage(test_session, now, ShownOption(test_session))
       IN  /\ test_session' = run.session
           /\ page' = SubmitPageArrival(run.session)
    /\ op' = "exam_interface: submit test"
    /\ args' = <<>>
    /\ result' = <<>>
    /\ UNCHANGED <<questions, submissions, test, now, confirm_submit>>

\* The student opens the submit page from the page list; a submitted
\* session is sent on to the results.
OpenSubmitPage ==
    /\ page # "submit_test"
    /\ page' = IF test_session.present
               THEN SubmitPageArrival(test_session) ELSE "submit_test"
    /\ confirm_submit' = FALSE
    /\ op' = "submit_test"
    /\ args' = <<>>
    /\ result' = <<>>
    /\ UNCHANGED <<questions, submissions, test, now, test_session>>

\* The submit page shows its summary, checkbox and buttons.
SubmitShown ==
    /\ page = "submit_test"
    /\ test_session.present
    /\ test_session.questions_loaded
    /\ ~test_session.submitted

\* The student ticks or clears the confirmation checkbox.
ToggleConfirm ==
    /\ SubmitShown
    /\ confirm_submit' = ~confirm_submit
    /\ op' = "submit_test: confirm"
    /\ args' = <<>>
    /\ result' = <<>>
    /\ UNCHANGED <<questions, submissions, test, now, page, test_session>>

\* 'Back to Test': refused when the time is up, else the exam page runs.
PressBackToTest ==
    /\ SubmitShown
    /\ IF TimeRemaining(test_session, now) <= 0
       THEN UNCHANGED <<test_session, page, confirm_submit>>
       ELSE LET run == RunExamPage(test_session, now, ShownOption(test_session))
            IN  /\ test_session' = run.session
                /\ page' = run.page
                /\ confirm_submit' = FALSE
    /\ op' = "submit_test: back to test"
    /\ args' = <<>>
    /\ result' = <<>>
    /\ UNCHANGED <<questions, submissions, test, now>>

\* 'Submit Final Answers', enabled by the checkbox: the answers are
\* graded and create_submission is called; it stores the submission and
\* returns its id, or fails and returns None.
PressSubmitFinal ==
    /\ SubmitShown
    /\ confirm_submit
    /\ \E stored \in BOOLEAN :
          LET submission_data ==
                  GradeSubmission(test_session.questions, test_session.student_name,
                                  test_session.answers)
              graded == [test_session EXCEPT
                            !.score = submission_data.score,
                            !.percentage = submission_data.percentage]
          IN  /\ stored => Len(submissions) < MaxStored
              /\ result' = <<stored>>
              /\ IF stored
                 THEN /\ submissions' = Append(submissions, submission_data)
                      /\ test_session' = [graded EXCEPT !.submitted = TRUE]
                      /\ page' = "test_results"
                      /\ confirm_submit' = FALSE
                 ELSE /\ test_session' = graded
                      /\ UNCHANGED <<submissions, page, confirm_submit>>
    /\ op' = "submit_test: submit final"
    /\ args' = <<>>
    /\ UNCHANGED <<questions, test, now>>

\* 'Done - Close Results': the session is deleted.
PressCloseResults ==
    /\ page = "test_results"
    /\ test_session.present
    /\ test_session.submitted
    /\ test_session' = NoSession
    /\ op' = "test_results: close"
    /\ args' = <<>>
    /\ result' = <<>>
    /\ UNCHANGED <<questions, submissions, test, now, page, confirm_submit>>

NextStudent ==
    \/ Tick
    \/ OpenTakeTest
    \/ SubmitAccessForm
    \/ OpenExamPage
    \/ AutoRefresh
    \/ SelectOption
    \/ PressPrevious
    \/ PressNext
    \/ JumpToQuestion
    \/ PressSubmitTest
    \/ OpenSubmitPage
    \/ ToggleConfirm
    \/ PressBackToTest
    \/ PressSubmitFinal
    \/ PressCloseResults

SpecStudent == InitStudent /\ [][NextStudent]_vars

\* The same with the steps nobody has to take for them to happen: the
\* clock runs on and the exam page refreshes itself every second
\* (st_autorefresh).  Nothing obliges the student to click.
FairSpecStudent ==
    SpecStudent /\ WF_vars(Tick) /\ WF_vars(AutoRefresh)

----------------------------------------------------------------------------
(* Properties of the risk classification *)

Range(s) == {s[i] : i \in DOMAIN s}

CountOf(s, x) == Cardinality({i \in DOMAIN s : s[i] = x})

Classified == op = "classify_student_risk"

\* C1: classify_student_risk places every submission in exactly one of the
\* three lists: the three counts add up to total_students, which is the
\* number of submissions, each count is the length of its list, and every
\* student record occurs in the three lists together exactly as often as
\* among the submissions (none dropped, none listed twice); for the empty
\* list every count is 0 and every list is empty.
RiskBucketsPartitionSubmissions ==
    Classified =>
        LET listed == result.high_risk \o result.medium_risk \o result.low_risk
            given == [i \in 1..Len(submissions) |-> StudentData(submissions[i])]
            stats == result.stats
        IN  /\ stats.high_risk_count + stats.medium_risk_count
                 + stats.low_risk_count = stats.total_students
            /\ stats.total_students = Len(submissions)
            /\ stats.high_risk_count = Len(result.high_risk)
            /\ stats.medium_risk_count = Len(result.medium_risk)
            /\ stats.low_risk_count = Len(result.low_risk)
            /\ \A d \in Range(given) \cup Range(listed) :
                   CountOf(listed, d) = CountOf(given, d)
            /\ submissions = <<>> =>
                   /\ listed = <<>>
                   /\ stats.total_students = 0
                   /\ stats.high_risk_count = 0
                   /\ stats.medium_risk_count = 0
                   /\ stats.low_risk_count = 0

\* A classification that filled all three lists.
AllThreeBucketsFilled ==
    /\ Classified
    /\ result.high_risk # <<>>
    /\ result.medium_risk # <<>>
    /\ result.low_risk # <<>>

AllAtSixtyFiveAreMediumRisk ==
    ( /\ Classified
      /\ args = <<Pct(40), Pct(65)>>
      /\ submissions # <<>>
      /\ \A i \in DOMAIN submissions : submissions[i].percentage = Pct(65) )
    => /\ result.stats.medium_risk_count = Len(submissions)
       /\ result.stats.high_risk_count = 0
       /\ result.stats.low_risk_count = 0

IsAscending(list) ==
    \A i, j \in DOMAIN list : i < j => list[i].percentage <= list[j].percentage

IsDescending(list) ==
    \A i, j \in DOMAIN list : i < j => list[i].percentage >= list[j].percentage

\* C4: in the result the high_risk and medium_risk lists are sorted by
\* percentage ascending (worst first) and the low_risk list by percentage
\* descending (best first), whatever the order of the submissions.
RiskListsAreOrdered ==
    Classified =>
        /\ IsAscending(result.high_risk)
        /\ IsAscending(result.medium_risk)
        /\ IsDescending(result.low_risk)

\* A classification whose low-risk students arrived worst first, so that
\* the list had to be reversed, next to a student of another bucket.
LowRiskListHadToBeReordered ==
    /\ Classified
    /\ Len(result.low_risk) >= 2
    /\ result.low_risk # RiskList(submissions, "low", args[1], args[2])
    /\ Len(result.low_risk) < Len(submissions)

----------------------------------------------------------------------------
(* Properties of the readiness score *)

ReadinessCalled == op = "calculate_class_readiness"

\* C5: calculate_class_readiness returns a readiness_score within [0, 100]
\* for every submission list: a mean plus bonuses above 100 is reported as
\* 100 and a mean minus the penalty below 0 is reported as 0.
ReadinessScoreIsClamped ==
    ReadinessCalled =>
        /\ 0 <= result.readiness_score
        /\ result.readiness_score <= Pct(100)
        /\ submissions # <<>> =>
              LET percentages == PercentagesOf(submissions)
                  n == Len(submissions)
              IN  /\ AdjustedScoreTimesN(percentages) > Pct(100) * n
                        => result.readiness_score = Pct(100)
                  /\ AdjustedScoreTimesN(percentages) < 0
                        => result.readiness_score = 0

\* A class whose mean plus bonuses is above 100, reported as 100.
ScoreAboveHundredWasCapped ==
    /\ ReadinessCalled
    /\ submissions # <<>>
    /\ AdjustedScoreTimesN(PercentagesOf(submissions)) > Pct(100) * Len(submissions)
    /\ result.readiness_score = Pct(100)

\* The three conditions of the formula, each on the original percentages.
DeviationBelow15(percentages) ==
    VarTimesN2(percentages) < Pct(15) * Pct(15) * Len(percentages) * Len(percentages)

MajorityAtLeast70(percentages) ==
    2 * Cardinality({i \in DOMAIN percentages : percentages[i] >= Pct(70)})
        > Len(percentages)

OverThirtyPercentBelow40(percentages) ==
    10 * Cardinality({i \in DOMAIN percentages : percentages[i] < Pct(40)})
        > 3 * Len(percentages)

\* mean + 5 [std < 15] + 3 [majority >= 70] - 10 [over 30% < 40], times N.
FormulaScoreTimesN(percentages) ==
    LET n == Len(percentages)
    IN  SumSeq(percentages)
        + (IF DeviationBelow15(percentages) THEN Pct(5) * n ELSE 0)
        + (IF MajorityAtLeast70(percentages) THEN Pct(3) * n ELSE 0)
        - (IF OverThirtyPercentBelow40(percentages) THEN Pct(10) * n ELSE 0)

StatusFollowsClampedScore ==
    (ReadinessCalled /\ submissions # <<>>) =>
        LET n == Len(submissions)
            clamped == Min2(Pct(100) * n,
                            Max2(0, FormulaScoreTimesN(PercentagesOf(submissions))))
        IN  /\ result.status = "Exam Ready" <=> clamped >= Pct(75) * n
            /\ result.status = "Borderline" <=>
                  (Pct(60) * n <= clamped /\ clamped < Pct(75) * n)
            /\ result.status = "Not Ready" <=> clamped < Pct(60) * n
            /\ result.status # "No Data"
            /\ result.recommendation # ""
            /\ result.status = "Exam Ready" => result.recommendation =
                  "Class is well-prepared. Focus on revision and practice."
            /\ result.status = "Borderline" => result.recommendation =
                  "Class needs targeted intervention on weak topics. 1-2 weeks of focused revision recommended."
            /\ result.status = "Not Ready" => result.recommendation =
                  "Significant gaps identified. Conduct intensive revision sessions."

\* A class whose score is exactly 75, the lowest 'Exam Ready' score.
ExamReadyAtExactly75 ==
    /\ ReadinessCalled
    /\ submissions # <<>>
    /\ AdjustedScoreTimesN(PercentagesOf(submissions)) = Pct(75) * Len(submissions)
    /\ result.status = "Exam Ready"

----------------------------------------------------------------------------
(* Properties of the no-data results and of the aggregated report *)

\* C8: with an empty submission list every engine operation returns its
\* no-data value: the response joiner no rows, calculate_topic_performance
\* an empty mapping, calculate_class_readiness score 0 with status
\* 'No Data' and recommendation 'No submissions to analyze', and
\* calculate_test_statistics an empty mapping (no keys, not zero values).
EmptyInputGivesNoDataResults ==
    submissions = <<>> =>
        /\ op = "prepare_analytics_data" => result = <<>>
        /\ op = "calculate_topic_performance" => DOMAIN result = {}
        /\ op = "calculate_class_readiness" =>
              /\ result.readiness_score = 0
              /\ result.status = "No Data"
              /\ result.recommendation = "No submissions to analyze"
        /\ op = "calculate_test_statistics" => DOMAIN result = {}

\* The statistics of an empty list of a test that has questions.
StatisticsOfNoSubmissions ==
    /\ op = "calculate_test_statistics"
    /\ submissions = <<>>
    /\ questions # <<>>

ReportGenerated == op = "generate_comprehensive_analytics"

\* C9: generate_comprehensive_analytics on an empty submission list returns
\* exactly the two fields has_data = false and error = 'No submissions
\* available', whatever the questions are.
EmptyReportHasOnlyTwoFields ==
    (ReportGenerated /\ submissions = <<>>) =>
        /\ DOMAIN result = {"has_data", "error"}
        /\ result.has_data = FALSE
        /\ result.error = "No submissions available"

\* The report of an empty list of a test that has two questions.
ReportOfNoSubmissions ==
    /\ ReportGenerated
    /\ submissions = <<>>
    /\ Len(questions) = 2

\* C10: for every non-empty submission list the report has has_data = true,
\* total_submissions = len(submissions), total_questions = len(questions),
\* its topic_performance, risk_classification, class_readiness and
\* statistics equal what the component operations return on the same
\* inputs (the risk classification with the thresholds 40 and 65), and every
\* (topic, accuracy) pair of weak_topics and strong_topics is an entry of
\* its topic_performance with that accuracy.
ReportComposesComponents ==
    (ReportGenerated /\ submissions # <<>>) =>
        /\ result.has_data = TRUE
        /\ result.total_submissions = Len(submissions)
        /\ result.total_questions = Len(questions)
        /\ result.topic_performance =
              CalculateTopicPerformance(questions, submissions)
        /\ result.risk_classification =
              ClassifyStudentRisk(submissions, Pct(40), Pct(65))
        /\ result.class_readiness = CalculateClassReadiness(submissions)
        /\ result.statistics = CalculateTestStatistics(submissions)
        /\ \A pair \in Range(result.weak_topics) \cup Range(result.strong_topics) :
              \E stat \in Range(result.topic_performance) :
                  stat.topic = pair[1] /\ stat.accuracy = pair[2]

\* A report with a weak and a strong topic.
ReportWithWeakAndStrongTopic ==
    /\ ReportGenerated
    /\ result.has_data
    /\ result.weak_topics # <<>>
    /\ result.strong_topics # <<>>

----------------------------------------------------------------------------
(* Repeated reports *)

ReportGeneratedAgain == op = "generate_comprehensive_analytics, second call"

----------------------------------------------------------------------------
(* Properties of the response joiner and of the topic statistics *)

TopicsCalculated == op = "calculate_topic_performance"

Abs(x) == IF x < 0 THEN -x ELSE x

\* C12: for every topic of the result, 0 <= correct <= total_attempts,
\* 0 <= accuracy <= 100, accuracy is 100 * correct / total_attempts rounded
\* to two decimals (at most 0.005 away from it), and accuracy is 0 whenever
\* total_attempts is 0.
AccuracyIsRoundedShareOfCorrect ==
    TopicsCalculated =>
        \A stat \in Range(result) :
            /\ 0 <= stat.correct
            /\ stat.correct <= stat.total_attempts
            /\ 0 <= stat.accuracy
            /\ stat.accuracy <= Pct(100)
            /\ 2 * Abs(stat.accuracy * stat.total_attempts - Pct(100) * stat.correct)
                   <= stat.total_attempts
            /\ stat.total_attempts = 0 => stat.accuracy = 0

\* C12 as stated: accuracy is exactly 100 * correct / total_attempts.
AccuracyIsExactShareOfCorrect ==
    TopicsCalculated =>
        \A stat \in Range(result) :
            stat.accuracy * stat.total_attempts = Pct(100) * stat.correct

\* A topic answered three times, once correctly: 33.33.
TopicWithOneOfThreeCorrect ==
    /\ TopicsCalculated
    /\ \E stat \in Range(result) : stat.correct = 1 /\ stat.total_attempts = 3

\* The id of an answer added to a submission: no question has it and no
\* answer sheet uses it.
AddedOrphanId == "q8"

\* subs with an answer to the unknown question added to the answers of
\* the i-th submission, after its first k answers.
WithOrphanAnswer(subs, i, k) ==
    LET answers == subs[i].answers
        extended == SubSeq(answers, 1, k) \o << <<AddedOrphanId, "A">> >>
                    \o SubSeq(answers, k + 1, Len(answers))
    IN  [subs EXCEPT ![i] = [subs[i] EXCEPT !.answers = extended]]

\* C13: an answer whose question_id is the id of no supplied question is
\* skipped: no row of the joiner carries such an id, and adding such an
\* answer to any submission, at any place among its answers, yields the
\* same rows and the same statistics of every topic, so the other answers
\* of that submission are still counted.
OrphanAnswersAreSkipped ==
    TopicsCalculated =>
        /\ \A row \in Range(PrepareAnalyticsData(questions, submissions)) :
               HasQuestion(questions, row.question_id)
        /\ \A i \in DOMAIN submissions :
               \A k \in 0..Len(submissions[i].answers) :
                   /\ PrepareAnalyticsData(questions, WithOrphanAnswer(submissions, i, k))
                          = PrepareAnalyticsData(questions, submissions)
                   /\ CalculateTopicPerformance(questions,
                                                WithOrphanAnswer(submissions, i, k))
                          = result

\* Topic statistics of a list in which one submission answers a known and
\* an unknown question and another answers only an unknown one.
OrphanBesideCountedAnswer ==
    /\ TopicsCalculated
    /\ result # <<>>
    /\ \E i, j \in DOMAIN submissions :
          /\ Len(submissions[i].answers) = 2
          /\ submissions[i].answers[2][1] = "q9"
          /\ Len(submissions[j].answers) = 1
          /\ submissions[j].answers[1][1] = "q9"

\* The (submission, answer) pairs whose question_id matches a question.
MatchedAnswers ==
    {ik \in UNION {{i} \X DOMAIN submissions[i].answers : i \in DOMAIN submissions} :
        HasQuestion(questions, submissions[ik[1]].answers[ik[2]][1])}

\* Those whose selected option equals the key of the question, letter case
\* ignored.
CorrectAnswers ==
    {ik \in MatchedAnswers :
        LET answer == submissions[ik[1]].answers[ik[2]]
        IN  Upper(answer[2]) =
                Upper(LookupQuestion(questions, answer[1]).correct_option)}

\* C14: no response is dropped: total_attempts summed over the topics is
\* the number of (submission, answer) pairs whose question_id matches a
\* supplied question, and correct summed over the topics is the number of
\* those pairs whose selected option is the question's key (compared
\* ignoring letter case).
TopicTalliesAccountForEveryAnswer ==
    TopicsCalculated =>
        /\ SumSeq([k \in DOMAIN result |-> result[k].total_attempts])
               = Cardinality(MatchedAnswers)
        /\ SumSeq([k \in DOMAIN result |-> result[k].correct])
               = Cardinality(CorrectAnswers)

\* Two topics, four answers, one of them right only when case is ignored.
FourAnswersOverTwoTopics ==
    /\ TopicsCalculated
    /\ Len(result) = 2
    /\ Cardinality(MatchedAnswers) = 4
    /\ \E ik \in CorrectAnswers :
          LET answer == submissions[ik[1]].answers[ik[2]]
          IN  answer[2] # LookupQuestion(questions, answer[1]).correct_option

\* str.strip() on the option strings the model uses.
Trim(s) ==
    CASE s = " A" -> "A"
      [] s = " A " -> "A"
      [] s = " a" -> "a"
      [] s = " a " -> "a"
      [] OTHER -> s

TotalQuestionsCountsQuestionsOfTopic ==
    TopicsCalculated =>
        \A stat \in Range(result) :
            stat.total_questions =
                Cardinality({j \in DOMAIN questions : questions[j].topic = stat.topic})

\* A topic with two questions of which only one was answered, once.
TopicWithUnansweredQuestion ==
    /\ TopicsCalculated
    /\ \E stat \in Range(result) :
          stat.total_questions = 2 /\ stat.total_attempts = 1

----------------------------------------------------------------------------
(* Properties of the weak and strong topic lists (under SpecTopicLists) *)

\* The place of a topic in the iteration order of a topic_performance.
PlaceOf(topic_performance, topic) ==
    CHOOSE i \in DOMAIN topic_performance : topic_performance[i].topic = topic

\* C17: identify_weak_topics returns exactly the (topic, accuracy) pairs of
\* the topics with accuracy < threshold, each once (a topic at exactly the
\* threshold, 60 by default, is not weak), sorted by accuracy ascending,
\* topics of equal accuracy in the iteration order of topic_performance.
WeakTopicsAreThoseBelowThreshold ==
    op = "identify_weak_topics" =>
        LET topic_performance == args[1]
            threshold == args[2]
            below == {i \in DOMAIN topic_performance :
                         topic_performance[i].accuracy < threshold}
        IN  /\ Range(result) = { <<topic_performance[i].topic,
                                   topic_performance[i].accuracy>> : i \in below }
            /\ Len(result) = Cardinality(below)
            /\ \A a, b \in DOMAIN result :
                  a < b =>
                     /\ result[a][2] <= result[b][2]
                     /\ result[a][2] = result[b][2] =>
                            PlaceOf(topic_performance, result[a][1])
                                < PlaceOf(topic_performance, result[b][1])

\* Default threshold: a topic at exactly 60 is left out and the two topics
\* listed are equally weak.
WeakListWithTieAndTopicAtSixty ==
    /\ op = "identify_weak_topics"
    /\ args[2] = WeakThresholdDefault
    /\ \E i \in DOMAIN args[1] : args[1][i].accuracy = Pct(60)
    /\ Len(result) = 2
    /\ result[1][2] = result[2][2]

----------------------------------------------------------------------------
(* Properties of the comparison of a student with the class *)

StudentCompared == op = "compare_student_to_class"

\* The submissions of the class whose percentage is at most / above that
\* of the student compared.
ClassAtMostStudent ==
    {j \in DOMAIN submissions :
        submissions[j].percentage <= submissions[args[1]].percentage}

ClassAboveStudent ==
    {j \in DOMAIN submissions :
        submissions[j].percentage > submissions[args[1]].percentage}

RankIsOnePlusStrictlyBetter ==
    StudentCompared =>
        /\ result.rank = 1 + Cardinality(ClassAboveStudent)
        /\ \A j \in DOMAIN submissions :
              submissions[j].percentage = submissions[args[1]].percentage =>
                  CompareStudentToClass(submissions[j], submissions).rank = result.rank
        /\ ClassAboveStudent = {} => result.rank = 1
        /\ 1 <= result.rank
        /\ result.rank <= result.total_students
        /\ result.total_students = Len(submissions)

\* Two students sharing the second place behind a better one.
TiedStudentsBehindTheBest ==
    /\ StudentCompared
    /\ result.rank = 2
    /\ Cardinality(ClassAtMostStudent) = 2

----------------------------------------------------------------------------
(* Properties of the statistical summary *)

StatisticsCalculated == op = "calculate_test_statistics" /\ submissions # <<>>

\* The k-th smallest percentage of the submissions (k = 1 is the minimum).
KthSmallest(k) ==
    LET ps == PercentagesOf(submissions)
    IN  CHOOSE v \in Range(ps) :
            /\ Cardinality({i \in DOMAIN ps : ps[i] < v}) < k
            /\ k <= Cardinality({i \in DOMAIN ps : ps[i] <= v})

\* 100 times the value at position q / 100 * (N - 1), counted from 0, of
\* the sorted percentages, interpolated linearly between its neighbours.
InterpolatedTimes100(q) ==
    LET n == Len(submissions)
        below == (q * (n - 1)) \div 100
        part == (q * (n - 1)) % 100
        above == IF part = 0 THEN below ELSE below + 1
    IN  (100 - part) * KthSmallest(below + 1) + part * KthSmallest(above + 1)

\* The submissions with every field but the percentage replaced.
OnlyPercentagesKept ==
    [i \in DOMAIN submissions |->
        [ student_name |-> "anyone", answers |-> <<>>, score |-> 0,
          percentage |-> submissions[i].percentage, total_questions |-> 1 ]]

\* C21: for a non-empty list the statistics depend on the percentages
\* only; mean is the arithmetic mean, Q1, Q2 and Q3 are the linearly
\* interpolated percentiles at 25, 50 and 75, each rounded to two decimals
\* (at most 0.005 away); min_score and max_score are the smallest and the
\* largest percentage; Q2 = median; min_score <= Q1 <= Q2 <= Q3 <=
\* max_score; and the mean of 30, 50, 70, 90 is 60.
StatisticsAreRoundedPopulationValues ==
    StatisticsCalculated =>
        LET n == Len(submissions)
            ps == PercentagesOf(submissions)
            q == result.quartiles
        IN  /\ result = CalculateTestStatistics(OnlyPercentagesKept)
            /\ 2 * Abs(result.mean * n - SumSeq(ps)) <= n
            /\ result.min_score = KthSmallest(1)
            /\ result.max_score = KthSmallest(n)
            /\ 2 * Abs(100 * q.Q1 - InterpolatedTimes100(25)) <= 100
            /\ 2 * Abs(100 * q.Q2 - InterpolatedTimes100(50)) <= 100
            /\ 2 * Abs(100 * q.Q3 - InterpolatedTimes100(75)) <= 100
            /\ q.Q2 = result.median
            /\ result.min_score <= q.Q1 /\ q.Q1 <= q.Q2
            /\ q.Q2 <= q.Q3 /\ q.Q3 <= result.max_score
            /\ submissions = FourStudentClass => result.mean = Pct(60)

\* C21 as stated: the mean and the quartiles are the exact values.
StatisticsAreExactPopulationValues ==
    StatisticsCalculated =>
        /\ result.mean * Len(submissions) = SumSeq(PercentagesOf(submissions))
        /\ 100 * result.quartiles.Q1 = InterpolatedTimes100(25)
        /\ 100 * result.quartiles.Q3 = InterpolatedTimes100(75)

\* The statistics of 30, 50, 70, 90: quartiles 45, 60 and 75.
StatisticsOfFourStudentClass ==
    /\ StatisticsCalculated
    /\ submissions = FourStudentClass
    /\ result.quartiles = [Q1 |-> Pct(45), Q2 |-> Pct(60), Q3 |-> Pct(75)]

----------------------------------------------------------------------------
(* Topics without answers; grading against the joiner; the reported score *)

\* The topics of the questions that some answer of some submission refers to.
AnsweredTopics ==
    { LookupQuestion(questions, submissions[ik[1]].answers[ik[2]][1]).topic :
        ik \in MatchedAnswers }

\* C28: the keys of the result of calculate_topic_performance are exactly
\* the topics of the questions that received at least one answer, each
\* once; every entry has total_attempts >= 1 and students_attempted >= 1;
\* a topic whose questions nobody answered has no entry, and so is not
\* among the weak topics either.
TopicKeysAreTheAnsweredTopics ==
    TopicsCalculated =>
        /\ {result[k].topic : k \in DOMAIN result} = AnsweredTopics
        /\ Len(result) = Cardinality(AnsweredTopics)
        /\ \A stat \in Range(result) :
              stat.total_attempts >= 1 /\ stat.students_attempted >= 1
        /\ \A pair \in Range(IdentifyWeakTopics(result, WeakThresholdDefault)) :
              pair[1] \in AnsweredTopics

\* Two topics among the questions, answers to the questions of one only.
TopicNobodyAnsweredIsAbsent ==
    /\ TopicsCalculated
    /\ Cardinality({questions[j].topic : j \in DOMAIN questions}) = 2
    /\ Len(result) = 1
    /\ Len(submissions) = 2

\* A submission as the submit page stores it: graded on the questions of
\* the test, its answers recorded by the exam page for questions of the test.
FromSubmitPage(submission) ==
    /\ submission = GradeSubmission(questions, submission.student_name,
                                    submission.answers)
    /\ \A k \in DOMAIN submission.answers :
          HasQuestion(questions, submission.answers[k][1])

\* The rows the joiner builds for one submission that it marks correct.
CorrectRowsOf(submission) ==
    LET rows == SubmissionResponses(questions, submission, submission.answers)
    IN  {k \in DOMAIN rows : rows[k].is_correct}

Joined == op = "prepare_analytics_data"

\* C29: for a submission produced by the submit page, score is the number
\* of rows the joiner marks is_correct for it, score <= number of answered
\* questions <= total_questions, and percentage is 100 * score /
\* total_questions rounded to two decimals; when every submission is such
\* a one, the scores add up to the rows of the result marked is_correct.
ScoreAgreesWithJoiner ==
    Joined =>
        /\ \A i \in DOMAIN submissions :
              FromSubmitPage(submissions[i]) =>
                 LET submission == submissions[i]
                 IN  /\ submission.score = Cardinality(CorrectRowsOf(submission))
                     /\ submission.score <= Len(submission.answers)
                     /\ Len(submission.answers) <= submission.total_questions
                     /\ 2 * Abs(submission.percentage * submission.total_questions
                                - Pct(100) * submission.score)
                            <= submission.total_questions
        /\ (\A i \in DOMAIN submissions : FromSubmitPage(submissions[i])) =>
              SumSeq([i \in DOMAIN submissions |-> submissions[i].score])
                  = Cardinality({k \in DOMAIN result : result[k].is_correct})

\* C29 as stated: percentage is exactly 100 * score / total_questions.
PercentageIsExactShareOfScore ==
    Joined =>
        \A i \in DOMAIN submissions :
            FromSubmitPage(submissions[i]) =>
                submissions[i].percentage * submissions[i].total_questions
                    = Pct(100) * submissions[i].score

\* A submission with one of three questions right and two left unanswered
\* (33.33 percent, one row), beside one with two wrong answers.
GradedOneOfThreeWithUnanswered ==
    /\ Joined
    /\ Len(questions) = 3
    /\ Len(submissions) = 2
    /\ \A i \in DOMAIN submissions : FromSubmitPage(submissions[i])
    /\ submissions[1].score = 1
    /\ submissions[1].percentage = Pct(33) + 33
    /\ Len(submissions[1].answers) = 1
    /\ submissions[2].score = 0
    /\ Len(result) = 3

\* C30: for a non-empty list the reported readiness_score and the status
\* agree on the band: readiness_score >= 75 iff the status is 'Exam Ready'
\* and readiness_score < 60 iff it is 'Not Ready'.
ReportedScoreAgreesWithStatus ==
    (ReadinessCalled /\ submissions # <<>>) =>
        /\ result.readiness_score >= Pct(75) <=> result.status = "Exam Ready"
        /\ result.readiness_score < Pct(60) <=> result.status = "Not Ready"

----------------------------------------------------------------------------
(* Properties of the student pages (under SpecStudent) *)

\* A session whose time is up and that is not submitted.
TimeUpUnsubmitted ==
    /\ test_session.present
    /\ test_session.questions_loaded
    /\ ~test_session.submitted
    /\ TimeRemaining(test_session, now) <= 0

\* C22: the stored submissions hold at most one submission per student
\* of the test, whatever the student does on the pages.
AtMostOneSubmissionPerStudent ==
    \A i, j \in DOMAIN submissions :
        submissions[i].student_name = submissions[j].student_name => i = j

\* C23: when the time of a session is up and it is not submitted, it
\* eventually is (or is over), with nobody ticking the checkbox or
\* pressing a button: only the clock and the page's own refresh are sure
\* to take their steps.
TimeUpLeadsToSubmission == TimeUpUnsubmitted ~> ~TimeUpUnsubmitted

\* The access form's step created a session.
SessionCreated ==
    /\ op' = "take_test: access form"
    /\ test_session'.present
    /\ (test_session.present => test_session' # test_session)

\* C24: a session is created only by the access form after
\* validate_access_code returned True; it returns True only if the test
\* exists, the entered code equals its access_code ignoring case, the time
\* is not after a given expiry_time and the stored status is not
\* 'expired'; a failed lookup makes it return False and creates nothing.
SessionOnlyAfterValidAccessCode ==
    [][ /\ (test_session'.present /\ ~test_session.present) => SessionCreated
        /\ SessionCreated => result' = <<TRUE>>
        /\ (op' = "take_test: access form" /\ result' = <<TRUE>>) =>
              /\ test.found
              /\ Upper(test.access_code) = Upper(args'[2])
              /\ test.expiry_time.is_datetime => now <= test.expiry_time.at
              /\ test.status # "expired"
        /\ (op' = "take_test: access form" /\ result' # <<>> /\ ~args'[4]) =>
              /\ result' = <<FALSE>>
              /\ test_session' = test_session ]_vars

\* A session started with the code in lower case at the very minute the
\* link expires.
SessionStartedAtLinkExpiry ==
    /\ op = "take_test: access form"
    /\ result = <<TRUE>>
    /\ args[2] = "math01"
    /\ test.expiry_time.is_datetime
    /\ now = test.expiry_time.at
    /\ test_session.present
    /\ test_session.start_time = now

\* C25: a submission is stored only by 'Submit Final Answers' of a session
\* not yet submitted, which is then marked submitted and shown its
\* results; a submitted session stays submitted, stores nothing more and
\* is sent to the results by the submit page; when create_submission
\* fails, nothing is stored and the session stays unsubmitted on the
\* submit page.
OneSubmissionPerSession ==
    [][ /\ submissions' # submissions =>
              /\ op' = "submit_test: submit final"
              /\ test_session.present /\ ~test_session.submitted
              /\ test_session'.present /\ test_session'.submitted
              /\ Len(submissions') = Len(submissions) + 1
              /\ page' = "test_results"
        /\ (test_session.present /\ test_session.submitted) =>
              /\ submissions' = submissions
              /\ (test_session'.present /\ op' # "take_test: access form")
                    => test_session'.submitted
        /\ (op' = "submit_test" /\ test_session.present /\ test_session.submitted)
              => page' = "test_results"
        /\ (op' = "submit_test: submit final" /\ result' = <<FALSE>>) =>
              /\ submissions' = submissions
              /\ ~test_session'.submitted
              /\ page' = "submit_test" ]_vars

\* The submit page visited again after the submission: results shown.
SubmitPageVisitedAfterSubmission ==
    /\ op = "submit_test"
    /\ page = "test_results"
    /\ test_session.present /\ test_session.submitted
    /\ Len(submissions) = 1

\* The steps that run the exam page's script.
ExamPageRuns ==
    { "exam_interface", "exam_interface: refresh", "exam_interface: answer",
      "exam_interface: previous", "exam_interface: next",
      "exam_interface: navigator", "exam_interface: submit test" }

\* A click on 'Previous' at the first question or on 'Next' at the last:
\* the button is disabled and the script does not run.
DisabledButtonClicked ==
    \/ op' = "exam_interface: previous" /\ test_session.current_question = 0
    \/ /\ op' = "exam_interface: next"
       /\ test_session.current_question = Len(test_session.questions) - 1

\* C26: once the time of a session is up, its recorded answers do not
\* change: the exam page leaves for the submit page without recording the
\* selection, 'Back to Test' is refused, and the answers stored with the
\* submission are the recorded ones.
AnswersFrozenAfterTimeUp ==
    [][ /\ ( /\ test_session.present
             /\ TimeRemaining(test_session, now) <= 0
             /\ op' \notin {"take_test: access form", "test_results: close"} ) =>
              /\ test_session'.present
              /\ test_session'.answers = test_session.answers
              /\ ( /\ test_session.questions_loaded
                   /\ op' \in ExamPageRuns
                   /\ ~DisabledButtonClicked ) => page' # "exam_interface"
              /\ op' = "submit_test: back to test" => page' = "submit_test"
        /\ submissions' # submissions =>
              submissions'[Len(submissions')].answers = test_session.answers ]_vars

\* An option picked after the time was up: the page went to the submit
\* page and the answers are the one recorded before.
SelectionAfterTimeUpNotRecorded ==
    /\ op = "exam_interface: answer"
    /\ page = "submit_test"
    /\ TimeUpUnsubmitted
    /\ Len(test_session.answers) = 1
    /\ test_session.current_question = 1
    /\ test_session.answers[1][1] = "q1"

\* C27: the current question of an exam session is one of its questions,
\* 0 <= current_question <= total_questions - 1, after every step;
\* 'Previous' at the first question and 'Next' at the last change nothing.
CurrentQuestionStaysValid ==
    [][ /\ (test_session'.present /\ test_session'.questions_loaded) =>
              /\ 0 <= test_session'.current_question
              /\ test_session'.current_question
                    <= Len(test_session'.questions) - 1
        /\ (op' = "exam_interface: previous" /\ test_session.current_question = 0)
              => (test_session' = test_session /\ page' = page)
        /\ ( /\ op' = "exam_interface: next"
             /\ test_session.current_question = Len(test_session.questions) - 1 )
              => (test_session' = test_session /\ page' = page) ]_vars

\* 'Next' clicked at the last question, both questions answered.
NextPressedAtLastQuestion ==
    /\ op = "exam_interface: next"
    /\ args = <<1>>
    /\ test_session.current_question = 1
    /\ Len(test_session.answers) = 2

====
